---- MODULE Spec2Model ----
(***************************************************************************)
(* mini-redis: the RESP frame codec of src/frame.rs (Frame::encode,         *)
(* Frame::decode and the one-pass parser FrameBufSlice::parse) acting on    *)
(* one BytesMut accumulator.                                                *)
(*                                                                          *)
(* Bytes are their ASCII codes.  Buffer positions are 0-based as in the     *)
(* Rust source; the byte at position p of a buffer b is b[p + 1].           *)
(*                                                                          *)
(* An i64 is the record [neg, mag]: its sign and the decimal digits of its  *)
(* magnitude without leading zeros (zero is [neg |-> FALSE, mag |-> <<0>>]).*)
(* The full 64-bit range is kept: the range test of str::parse compares     *)
(* digit strings with the digits of i64::MAX and of |i64::MIN|.             *)
(***************************************************************************)
EXTENDS Integers, Sequences, FiniteSets, TLC

VARIABLES stream, rd, todo, buf, res, enc, last, prev,
          program, backlog, sock, task, pongs

codec_vars == <<stream, rd, todo, buf, res, enc, last, prev>>
server_vars == <<program, backlog, sock, task, pongs>>
vars == <<stream, rd, todo, buf, res, enc, last, prev, program, backlog, sock, task, pongs>>

(***************************************************************************)
(* Bytes                                                                    *)
(***************************************************************************)
PLUS == 43
MINUS == 45
COLON == 58
DOLLAR == 36
STAR == 42
CR == 13
LF == 10
ZERO == 48

Markers == {PLUS, MINUS, COLON, DOLLAR, STAR}

IsDigit(b) == b >= ZERO /\ b <= ZERO + 9

(***************************************************************************)
(* i64 values and their decimal text                                        *)
(***************************************************************************)
I64(neg, mag) == [neg |-> neg, mag |-> mag]

I64_MAX_MAG == <<9,2,2,3,3,7,2,0,3,6,8,5,4,7,7,5,8,0,7>>
I64_MIN_MAG == <<9,2,2,3,3,7,2,0,3,6,8,5,4,7,7,5,8,0,8>>

\* digit strings without leading zeros, compared as numbers
RECURSIVE LexLeq(_, _)
LexLeq(a, b) ==
    IF a = <<>> THEN TRUE
    ELSE IF a[1] # b[1] THEN a[1] < b[1]
    ELSE LexLeq(Tail(a), Tail(b))

MagLeq(a, b) ==
    IF Len(a) # Len(b) THEN Len(a) < Len(b) ELSE LexLeq(a, b)

RECURSIVE StripZeros(_)
StripZeros(ds) ==
    IF Len(ds) > 1 /\ ds[1] = 0 THEN StripZeros(Tail(ds)) ELSE ds

\* the number a magnitude denotes; used only for magnitudes of at most nine
\* digits
RECURSIVE MagToNat(_)
MagToNat(ds) ==
    IF ds = <<>> THEN 0 ELSE MagToNat(SubSeq(ds, 1, Len(ds) - 1)) * 10 + ds[Len(ds)]

RECURSIVE NatToMag(_)
NatToMag(n) ==
    IF n < 10 THEN <<n>> ELSE Append(NatToMag(n \div 10), n % 10)

NatToI64(n) == I64(FALSE, NatToMag(n))

MinusOne == I64(TRUE, <<1>>)

\* mutant of to_string: the magnitude without the sign
to_string_unsigned(i) == [k \in 1..Len(i.mag) |-> ZERO + i.mag[k]]

\* i64::to_string / usize::to_string, as bytes
to_string(i) ==
    (IF i.neg THEN <<MINUS>> ELSE <<>>) \o [k \in 1..Len(i.mag) |-> ZERO + i.mag[k]]

ParseOk(i) == [ok |-> TRUE, i |-> i]
ParseErr == [ok |-> FALSE]

\* mutant of str_parse: no overflow check
str_parse_unchecked(w) ==
    IF w = <<>> THEN ParseErr
    ELSE LET signed == w[1] \in {PLUS, MINUS}
             neg == w[1] = MINUS
             ds == IF signed THEN Tail(w) ELSE w
         IN  IF ds = <<>> THEN ParseErr
             ELSE IF \E k \in 1..Len(ds) : ~IsDigit(ds[k]) THEN ParseErr
             ELSE LET mag == StripZeros([k \in 1..Len(ds) |-> ds[k] - ZERO])
                  IN  ParseOk(I64(neg /\ mag # <<0>>, mag))

\* <i64 as FromStr>::from_str: optional sign, one or more ASCII digits,
\* checked for overflow.  The result is Ok(i64) or Err.

str_parse(w) ==
    IF w = <<>> THEN ParseErr
    ELSE LET signed == w[1] \in {PLUS, MINUS}
             neg == w[1] = MINUS
             ds == IF signed THEN Tail(w) ELSE w
         IN  IF ds = <<>> THEN ParseErr
             ELSE IF \E k \in 1..Len(ds) : ~IsDigit(ds[k]) THEN ParseErr
             ELSE LET mag == StripZeros([k \in 1..Len(ds) |-> ds[k] - ZERO])
                  IN  IF neg
                      THEN IF MagLeq(mag, I64_MIN_MAG)
                           THEN ParseOk(I64(mag # <<0>>, mag))
                           ELSE ParseErr
                      ELSE IF MagLeq(mag, I64_MAX_MAG)
                           THEN ParseOk(I64(FALSE, mag))
                           ELSE ParseErr

(***************************************************************************)
(* FrameValue                                                               *)
(***************************************************************************)
SimpleString(b) == [t |-> "SimpleString", b |-> b]
BulkString(b) == [t |-> "BulkString", b |-> b]
Error(b) == [t |-> "Error", b |-> b]
Integer(i) == [t |-> "Integer", i |-> i]
Array(fs) == [t |-> "Array", a |-> fs]
NullBulkString == [t |-> "NullBulkString"]
NullBulkArray == [t |-> "NullBulkArray"]

\* vec![c; n]
Fill(c, n) == [k \in 1..n |-> c]
\* BulkString(Bytes::from(vec![c; n])), kept as the byte and the count: the
\* payloads of millions of bytes that reach the ceiling
BulkStringOf(c, n) == [t |-> "BulkString", fill |-> c, n |-> n]
\* bytes.len() and the bytes of a bulk string's payload
bytes_len(f) == IF "b" \in DOMAIN f THEN Len(f.b) ELSE f.n
bytes(f) == IF "b" \in DOMAIN f THEN f.b ELSE Fill(f.fill, f.n)

MAX == 8 * 1024 * 1024

\* a magnitude of at most nine digits; MagToNat is applied to these only
IsSmall(mag) == Len(mag) <= 9

\* mutant of int_len: the sign is not counted
int_len_unsigned(num) ==
    IF num = I64(FALSE, <<0>>) THEN 1
    ELSE (Len(num.mag) - 1) + 1

\* mutant of int_len: zero is given no digit
int_len_zero(num) ==
    IF num = I64(FALSE, <<0>>) THEN 0
    ELSE LET digits == (Len(num.mag) - 1) + 1
         IN  IF ~num.neg THEN digits ELSE digits + 1

int_len(num) ==
    IF num = I64(FALSE, <<0>>) THEN 1
    ELSE LET digits == (Len(num.mag) - 1) + 1
         IN  IF ~num.neg THEN digits ELSE digits + 1

RECURSIVE FrameValue_len(_)
RECURSIVE SumLen(_)
SumLen(fs) == IF fs = <<>> THEN 0 ELSE FrameValue_len(Head(fs)) + SumLen(Tail(fs))

FrameValue_len(f) ==
    CASE f.t = "BulkString" ->
            LET len == bytes_len(f) IN 1 + int_len(NatToI64(len)) + 2 + len + 2
      [] f.t \in {"SimpleString", "Error"} -> 1 + Len(f.b) + 2
      [] f.t \in {"NullBulkString", "NullBulkArray"} -> 5
      [] f.t = "Integer" -> 1 + int_len(f.i) + 2
      [] f.t = "Array" -> 1 + int_len(NatToI64(Len(f.a))) + 2 + SumLen(f.a)

\* FrameValue::value: the bytes appended to dst
RECURSIVE FrameValue_value(_)
RECURSIVE ValueAll(_)
ValueAll(fs) ==
    IF fs = <<>> THEN <<>> ELSE FrameValue_value(Head(fs)) \o ValueAll(Tail(fs))

FrameValue_value(f) ==
    CASE f.t = "SimpleString" -> <<PLUS>> \o f.b \o <<CR, LF>>
      [] f.t = "BulkString" ->
            <<DOLLAR>> \o to_string(NatToI64(bytes_len(f))) \o <<CR, LF>> \o bytes(f)
                \o <<CR, LF>>
      [] f.t = "Error" -> <<MINUS>> \o f.b \o <<CR, LF>>
      [] f.t = "Integer" -> <<COLON>> \o to_string(f.i) \o <<CR, LF>>
      [] f.t = "NullBulkString" -> <<DOLLAR, MINUS, ZERO + 1, CR, LF>>
      [] f.t = "NullBulkArray" -> <<STAR, MINUS, ZERO + 1, CR, LF>>
      [] f.t = "Array" ->
            <<STAR>> \o to_string(NatToI64(Len(f.a))) \o <<CR, LF>> \o ValueAll(f.a)

\* FrameError::IOError(std::io::Error::new(kind, ..)); the message is left out
IOError(kind) == [e |-> "IOError", kind |-> kind]
InvalidData == "InvalidData"
\* what the err field holds when encode returns Ok(())
NoError == [e |-> "none"]

\* mutant of encode: the ceiling is tested after the marker byte is written
encode_late(item, dst) ==
    IF FrameValue_len(item) > MAX
    THEN [ok |-> FALSE, err |-> IOError(InvalidData),
          dst |-> dst \o <<IF item.t = "Array" THEN STAR ELSE DOLLAR>>]
    ELSE [ok |-> TRUE, err |-> NoError, dst |-> dst \o FrameValue_value(item)]

\* Frame::encode: Err(IOError) and dst untouched when the item is too large,
\* otherwise the item's bytes appended to dst
encode(item, dst) ==
    IF FrameValue_len(item) > MAX
    THEN [ok |-> FALSE, err |-> IOError(InvalidData), dst |-> dst]
    ELSE [ok |-> TRUE, err |-> NoError, dst |-> dst \o FrameValue_value(item)]

(***************************************************************************)
(* The parser: FrameBufSlice, BufSlice, word, get_int                       *)
(*                                                                          *)
(* A `match` on a computed value is an operator of its own that takes the   *)
(* value as a parameter: get_int is get_int_match applied to word's result. *)
(***************************************************************************)
BufSlice(a, b) == <<a, b>>

\* &buf[self.0 .. self.1]
as_slice(s, b) == SubSeq(b, s[1] + 1, s[2])

\* Result<Option<(usize, T)>, FrameError>
None == [k |-> "None"]
Some(pos, v) == [k |-> "Some", pos |-> pos, v |-> v]
Err(e) == [k |-> "Err", e |-> e]
\* Vec::with_capacity panics ("capacity overflow"); no Result is returned
Panic == [k |-> "Panic"]

IntParseFailure == [e |-> "IntParseFailure"]
UnknownStartingByte == [e |-> "UnknownStartingByte"]
BadBulkStringSize(n) == [e |-> "BadBulkStringSize", n |-> n]
BadBulkArraySize(n) == [e |-> "BadBulkArraySize", n |-> n]

\* memchr(needle, &buf[pos..]): the offset of the first needle, or -1
memchr(needle, b, pos) ==
    LET hits == {k \in pos..(Len(b) - 1) : b[k + 1] = needle}
    IN  IF hits = {} THEN -1
        ELSE (CHOOSE k \in hits : \A j \in hits : k <= j) - pos

\* mutant of word_end: a CR that ends the buffer closes the word
word_end_cr(b, pos, end) ==
    IF end = -1 THEN None
    ELSE IF pos + end + 1 < Len(b) /\ b[pos + end + 1 + 1] = LF
         THEN Some(pos + end + 2, BufSlice(pos, pos + end))
         ELSE IF pos + end + 1 = Len(b)
         THEN Some(pos + end + 1, BufSlice(pos, pos + end))
         ELSE None

\* mutant of word_end: the word's end offset stops before the LF
word_end_short(b, pos, end) ==
    IF end = -1 THEN None
    ELSE IF pos + end + 1 < Len(b) /\ b[pos + end + 1 + 1] = LF
         THEN Some(pos + end + 1, BufSlice(pos, pos + end))
         ELSE None

\* the closure given to and_then in word: end is memchr's answer
word_end(b, pos, end) ==
    IF end = -1 THEN None
    ELSE IF pos + end + 1 < Len(b) /\ b[pos + end + 1 + 1] = LF
         THEN Some(pos + end + 2, BufSlice(pos, pos + end))
         ELSE None

word(b, pos) ==
    IF Len(b) <= pos THEN None ELSE word_end(b, pos, memchr(CR, b, pos))

\* the Some arm of get_int: i is what str::parse returned
get_int_parsed(end, i) == IF i.ok THEN Some(end, i.i) ELSE Err(IntParseFailure)

get_int_match(b, w) ==
    IF w.k = "Some" THEN get_int_parsed(w.pos, str_parse(as_slice(w.v, b))) ELSE None

get_int(b, pos) == get_int_match(b, word(b, pos))

FS_SimpleString(s) == [t |-> "SimpleString", s |-> s]
FS_Error(s) == [t |-> "Error", s |-> s]
FS_BulkString(s) == [t |-> "BulkString", s |-> s]
FS_Integer(i) == [t |-> "Integer", i |-> i]
FS_Array(vs) == [t |-> "Array", a |-> vs]
FS_NullBulkString == [t |-> "NullBulkString"]
FS_NullBulkArray == [t |-> "NullBulkArray"]

\* Option::map / Result::map over the (pos, value) pair
map_simple_string(w) == IF w.k = "Some" THEN Some(w.pos, FS_SimpleString(w.v)) ELSE w
map_error(w) == IF w.k = "Some" THEN Some(w.pos, FS_Error(w.v)) ELSE w
map_integer(r) == IF r.k = "Some" THEN Some(r.pos, FS_Integer(r.v)) ELSE r

get_simple_string(b, pos) == map_simple_string(word(b, pos))

get_error(b, pos) == map_error(word(b, pos))

FrameBufSlice_get_int(b, pos) == map_integer(get_int(b, pos))

\* end + size as usize + 2 > buf.len(): a size of ten digits or more is
\* beyond every buffer the model holds
BeyondEnd(end, size, b) ==
    IF IsSmall(size.mag) THEN end + MagToNat(size.mag) + 2 > Len(b) ELSE TRUE

\* the arm `Some((end, size)) if size >= 0` once the payload is in the buffer
bulk_payload(b, end, size, end_string_pos) ==
    IF b[end_string_pos + 1] = CR /\ b[end_string_pos + 1 + 1] = LF
    THEN Some(end_string_pos + 2, FS_BulkString(BufSlice(end, end_string_pos)))
    ELSE Err(BadBulkStringSize(size))

\* mutant of get_bulk_string_match: a payload that has not arrived is an error
get_bulk_string_short(b, r) ==
    IF r.k = "Some"
    THEN IF r.v = MinusOne THEN Some(r.pos, FS_NullBulkString)
         ELSE IF ~r.v.neg
         THEN IF BeyondEnd(r.pos, r.v, b) THEN Err(BadBulkStringSize(r.v))
              ELSE bulk_payload(b, r.pos, r.v, r.pos + MagToNat(r.v.mag))
         ELSE Err(BadBulkStringSize(r.v))
    ELSE r

\* the payload of get_bulk_string_scan: w is the word found after the length
bulk_scanned(size, w) ==
    IF w.k # "Some" THEN None
    ELSE IF IsSmall(size.mag) /\ w.v[2] - w.v[1] = MagToNat(size.mag)
         THEN Some(w.pos, FS_BulkString(w.v))
         ELSE Err(BadBulkStringSize(size))

\* mutant of get_bulk_string_match: the payload ends at its first CR LF
get_bulk_string_scan(b, r) ==
    IF r.k = "Some"
    THEN IF r.v = MinusOne THEN Some(r.pos, FS_NullBulkString)
         ELSE IF ~r.v.neg THEN bulk_scanned(r.v, word(b, r.pos))
         ELSE Err(BadBulkStringSize(r.v))
    ELSE r

\* mutant of get_bulk_string_match: the null bulk string has an empty payload
\* line after its length
get_bulk_string_null(b, r) ==
    IF r.k = "Some"
    THEN IF r.v = MinusOne
         THEN IF r.pos + 2 > Len(b) THEN None
              ELSE Some(r.pos + 2, FS_NullBulkString)
         ELSE IF ~r.v.neg
         THEN IF BeyondEnd(r.pos, r.v, b) THEN None
              ELSE bulk_payload(b, r.pos, r.v, r.pos + MagToNat(r.v.mag))
         ELSE Err(BadBulkStringSize(r.v))
    ELSE r

\* the match of get_bulk_string: r is get_int's answer, (end, size) = (r.pos, r.v)
get_bulk_string_match(b, r) ==
    IF r.k = "Some"
    THEN IF r.v = MinusOne THEN Some(r.pos, FS_NullBulkString)
         ELSE IF ~r.v.neg
         THEN IF BeyondEnd(r.pos, r.v, b) THEN None
              ELSE bulk_payload(b, r.pos, r.v, r.pos + MagToNat(r.v.mag))
         ELSE Err(BadBulkStringSize(r.v))
    ELSE r

get_bulk_string(b, pos) == get_bulk_string_match(b, get_int(b, pos))

\* Vec::<FrameBufSlice>::with_capacity(size as usize) panics with "capacity
\* overflow" when size * size_of::<FrameBufSlice>() exceeds isize::MAX.  The
\* element is at least 24 bytes (it holds a Vec), so every count of 19 digits
\* overflows and no count of at most 17 digits does; SLOT_MAX_MAG is
\* isize::MAX / 24.  An allocation that fits the address space is taken to
\* succeed.
SLOT_MAX_MAG == <<3,8,4,3,0,7,1,6,8,2,0,2,2,8,2,3,2,5>>

CapacityOverflow(size) == ~MagLeq(size.mag, SLOT_MAX_MAG)

\* the number of iterations of `for _ in 0..size`; the loop leaves at the
\* first element that is not there, so a count beyond nine digits never runs
\* more iterations than a buffer of the model has bytes
Iterations(size, b) ==
    IF IsSmall(size.mag) THEN MagToNat(size.mag) ELSE Len(b) + 1

RECURSIVE parse(_, _)
RECURSIVE ArrayLoop(_, _, _, _)

\* mutant of ArrayStep: the element is put in front of the earlier ones
ArrayStep_front(b, n, values, r) ==
    IF r.k = "Some" THEN ArrayLoop(b, r.pos, n - 1, <<r.v>> \o values) ELSE r

\* mutant of ArrayStep: an element that is in error is waited for
ArrayStep_wait(b, n, values, r) ==
    IF r.k = "Some" THEN ArrayLoop(b, r.pos, n - 1, Append(values, r.v))
    ELSE IF r.k = "Err" THEN None
    ELSE r

\* the match inside the loop: r is what parse returned for the element
ArrayStep(b, n, values, r) ==
    IF r.k = "Some" THEN ArrayLoop(b, r.pos, n - 1, Append(values, r.v)) ELSE r

\* mutant of ArrayLoop: an element that has not arrived ends the array early
ArrayLoop_partial(b, cur_pos, n, values) ==
    IF n = 0 THEN Some(cur_pos, FS_Array(values))
    ELSE IF values # <<>> /\ parse(b, cur_pos).k = "None"
    THEN Some(cur_pos, FS_Array(values))
    ELSE ArrayStep(b, n, values, parse(b, cur_pos))

\* `for _ in 0..size` in get_array, n iterations left
ArrayLoop(b, cur_pos, n, values) ==
    IF n = 0 THEN Some(cur_pos, FS_Array(values))
    ELSE ArrayStep(b, n, values, parse(b, cur_pos))

\* mutant of get_array_match: every negative count is the null array
get_array_neg(b, r) ==
    IF r.k = "Some"
    THEN IF r.v.neg THEN Some(r.pos, FS_NullBulkArray)
         ELSE IF CapacityOverflow(r.v) THEN Panic
         ELSE ArrayLoop(b, r.pos, Iterations(r.v, b), <<>>)
    ELSE r

\* mutant of get_array_match: a count of zero gives the null array
get_array_zero_null(b, r) ==
    IF r.k = "Some"
    THEN IF r.v = MinusOne \/ r.v = I64(FALSE, <<0>>) THEN Some(r.pos, FS_NullBulkArray)
         ELSE IF ~r.v.neg
         THEN IF CapacityOverflow(r.v) THEN Panic
              ELSE ArrayLoop(b, r.pos, Iterations(r.v, b), <<>>)
         ELSE Err(BadBulkArraySize(r.v))
    ELSE r

\* the match of get_array: r is get_int's answer, (end, size) = (r.pos, r.v)
get_array_match(b, r) ==
    IF r.k = "Some"
    THEN IF r.v = MinusOne THEN Some(r.pos, FS_NullBulkArray)
         ELSE IF ~r.v.neg
         THEN IF CapacityOverflow(r.v) THEN Panic
              ELSE ArrayLoop(b, r.pos, Iterations(r.v, b), <<>>)
         ELSE Err(BadBulkArraySize(r.v))
    ELSE r

get_array(b, pos) == get_array_match(b, get_int(b, pos))

\* mutant of parse: it waits for a second byte before it looks at the marker
parse_wait(b, pos) ==
    IF Len(b) <= pos + 1 THEN None
    ELSE CASE b[pos + 1] = PLUS -> get_simple_string(b, pos + 1)
           [] b[pos + 1] = MINUS -> get_error(b, pos + 1)
           [] b[pos + 1] = COLON -> FrameBufSlice_get_int(b, pos + 1)
           [] b[pos + 1] = DOLLAR -> get_bulk_string(b, pos + 1)
           [] b[pos + 1] = STAR -> get_array(b, pos + 1)
           [] OTHER -> Err(UnknownStartingByte)

parse(b, pos) ==
    IF Len(b) <= pos THEN None
    ELSE CASE b[pos + 1] = PLUS -> get_simple_string(b, pos + 1)
           [] b[pos + 1] = MINUS -> get_error(b, pos + 1)
           [] b[pos + 1] = COLON -> FrameBufSlice_get_int(b, pos + 1)
           [] b[pos + 1] = DOLLAR -> get_bulk_string(b, pos + 1)
           [] b[pos + 1] = STAR -> get_array(b, pos + 1)
           [] OTHER -> Err(UnknownStartingByte)

\* BufSlice::as_bytes on the frozen prefix
as_bytes(s, b) == SubSeq(b, s[1] + 1, s[2])

\* FrameBufSlice::value: the owned FrameValue of a parsed slice
RECURSIVE FrameBufSlice_value(_, _)
FrameBufSlice_value(fs, b) ==
    CASE fs.t = "SimpleString" -> SimpleString(as_bytes(fs.s, b))
      [] fs.t = "BulkString" -> BulkString(as_bytes(fs.s, b))
      [] fs.t = "Error" -> Error(as_bytes(fs.s, b))
      [] fs.t = "Integer" -> Integer(fs.i)
      [] fs.t = "Array" ->
            Array([k \in 1..Len(fs.a) |-> FrameBufSlice_value(fs.a[k], b)])
      [] fs.t = "NullBulkString" -> NullBulkString
      [] fs.t = "NullBulkArray" -> NullBulkArray

\* mutant of split_to: src keeps nothing
split_to_all(src, at) == [head |-> SubSeq(src, 1, at), rest |-> <<>>]

\* BytesMut::split_to(at): the first `at` bytes and what src keeps
split_to(src, at) == [head |-> SubSeq(src, 1, at), rest |-> SubSeq(src, at + 1, Len(src))]

\* the outcomes of Frame::decode
Incomplete == [k |-> "Incomplete"]
Frame(v, pos) == [k |-> "Frame", v |-> v, pos |-> pos]
Malformed(e) == [k |-> "Malformed", e |-> e]
Panicked == [k |-> "Panicked"]

\* mutant of decode_frame: the frame is returned and src keeps its bytes
decode_frame_keep(r, sp) ==
    [res |-> Frame(FrameBufSlice_value(r.v, sp.head), r.pos), src |-> sp.head \o sp.rest]

\* the Some arm of decode: sp is split_to's answer
decode_frame(r, sp) ==
    [res |-> Frame(FrameBufSlice_value(r.v, sp.head), r.pos), src |-> sp.rest]

\* mutant of decode_match: an incomplete frame is dropped from src
decode_match_clear(src, r) ==
    CASE r.k = "Some" -> decode_frame(r, split_to(src, r.pos))
      [] r.k = "None" -> [res |-> Incomplete, src |-> <<>>]
      [] r.k = "Err" -> [res |-> Malformed(r.e), src |-> src]
      [] r.k = "Panic" -> [res |-> Panicked, src |-> src]

\* the match of decode: r is what FrameBufSlice::parse(src, 0) returned
decode_match(src, r) ==
    CASE r.k = "Some" -> decode_frame(r, split_to(src, r.pos))
      [] r.k = "None" -> [res |-> Incomplete, src |-> src]
      [] r.k = "Err" -> [res |-> Malformed(r.e), src |-> src]
      [] r.k = "Panic" -> [res |-> Panicked, src |-> src]

\* Frame::decode: the outcome and the accumulator it leaves
decode(src) ==
    IF src = <<>> THEN [res |-> Incomplete, src |-> src]
    ELSE decode_match(src, parse(src, 0))

(***************************************************************************)
(* Bounds and the inputs drawn from them                                    *)
(***************************************************************************)
\* longest payload of a string value
MaxStr == 2
\* most elements of an array value
MaxArr == 2
\* deepest nesting of array values
MaxDepth == 2
\* longest stream of arbitrary bytes
MaxRaw == 3
\* most values handed to the encoder in a row
MaxItems == 2

SeqsUpTo(S, n) == UNION {[1..k -> S] : k \in 0..n}

PayloadBytes == {97, CR, LF}
Payloads == SeqsUpTo(PayloadBytes, MaxStr)

I64_MAX == I64(FALSE, I64_MAX_MAG)
I64_MIN == I64(TRUE, I64_MIN_MAG)

IntSamples ==
    {I64(FALSE, <<0>>), I64(FALSE, <<1>>), MinusOne, I64(TRUE, <<2>>),
     I64(FALSE, <<1, 0>>), I64_MAX, I64_MIN}

Atoms ==
    {SimpleString(p) : p \in Payloads} \cup {Error(p) : p \in Payloads}
    \cup {BulkString(p) : p \in Payloads} \cup {Integer(i) : i \in IntSamples}
    \cup {NullBulkString, NullBulkArray}

\* the values arrays are built from
ElemAtoms ==
    {Integer(I64(FALSE, <<1>>)), SimpleString(<<97>>), BulkString(<<CR, LF>>)}

One == Integer(I64(FALSE, <<1>>))

\* the arrays that are nested further
Seeds ==
    {Array(<<>>), Array(<<One>>), Array(<<SimpleString(<<97>>), BulkString(<<CR, LF>>)>>)}

\* the arrays nested exactly d deep (d >= 2): each array of the level below
\* alone, after an element and before an element
RECURSIVE Nested(_)
Nested(d) ==
    LET inner == IF d = 2 THEN Seeds ELSE Nested(d - 1)
    IN  {Array(<<x>>) : x \in inner} \cup {Array(<<One, x>>) : x \in inner}
        \cup {Array(<<x, One>>) : x \in inner}

\* arrays nested at most d deep
Arrays(d) ==
    {Array(fs) : fs \in SeqsUpTo(ElemAtoms, MaxArr)} \cup UNION {Nested(k) : k \in 2..d}

Values == Atoms \cup Arrays(MaxDepth)

\* no CR in the payload of any SimpleString or Error of the value
RECURSIVE NoCR(_)
NoCR(f) ==
    CASE f.t \in {"SimpleString", "Error"} -> \A k \in 1..Len(f.b) : f.b[k] # CR
      [] f.t = "Array" -> \A k \in 1..Len(f.a) : NoCR(f.a[k])
      [] OTHER -> TRUE

RawBytes == Markers \cup {CR, LF, ZERO + 1, 97}

\* a stream with one byte replaced
Replace(s, k, c) == [j \in 1..Len(s) |-> IF j = k THEN c ELSE s[j]]

Encodings == {FrameValue_value(v) : v \in Values}

\* the encodings of the element values and of the arrays, one byte replaced
\* by a letter or by a CR
Corrupted ==
    UNION {{Replace(FrameValue_value(v), k, c) :
                k \in 1..FrameValue_len(v), c \in {97, CR}} :
           v \in ElemAtoms \cup Arrays(MaxDepth)}

\* the words of integer, length and count fields
Digits(ds) == [k \in 1..Len(ds) |-> ZERO + ds[k]]

Words ==
    {<<>>, <<MINUS>>, <<PLUS>>, <<97>>, <<ZERO + 1, 97>>, <<LF>>, <<MINUS, MINUS, ZERO + 1>>,
     <<PLUS, ZERO + 1>>, <<PLUS, ZERO>>, <<MINUS, ZERO>>, <<ZERO, ZERO>>, <<ZERO, ZERO + 1>>,
     <<MINUS, ZERO, ZERO + 2>>,
     <<ZERO>>, <<ZERO + 1>>, <<ZERO + 2>>, <<ZERO + 3>>,
     <<MINUS, ZERO + 1>>, <<MINUS, ZERO + 2>>, <<MINUS, ZERO + 1, ZERO>>,
     Digits(<<8,3,8,8,6,0,8>>), Digits(<<8,3,8,8,6,0,9>>),
     Digits(<<1,0,0,0,0,0,0,0,0,0>>),
     Digits(I64_MAX_MAG), Digits(I64_MIN_MAG), <<MINUS>> \o Digits(I64_MIN_MAG),
     <<MINUS>> \o Digits(<<9,2,2,3,3,7,2,0,3,6,8,5,4,7,7,5,8,0,9>>),
     Digits(<<1,0,0,0,0,0,0,0,0,0,0,0,0,0,0,0,0,0,0,0>>)}

WordTails ==
    {<<>>, <<CR, LF>>, <<97, CR, LF>>, <<97, 97, 97>>, <<COLON, ZERO + 1, CR, LF>>,
     <<97, 97, CR, LF, 97>>}

WordStreams ==
    {<<m>> \o w \o <<CR, LF>> \o t : m \in {COLON, DOLLAR, STAR}, w \in Words, t \in WordTails}

\* the nested arrays of test_array_type:
\* *2 *3 :1 :2 :3 *2 +Hello -World, each field ended by CR LF
Hello == <<72, 101, 108, 108, 111>>
World == <<87, 111, 114, 108, 100>>
NestedExample ==
    <<STAR, ZERO + 2, CR, LF, STAR, ZERO + 3, CR, LF, COLON, ZERO + 1, CR, LF,
      COLON, ZERO + 2, CR, LF, COLON, ZERO + 3, CR, LF, STAR, ZERO + 2, CR, LF, PLUS>>
    \o Hello \o <<CR, LF, MINUS>> \o World \o <<CR, LF>>

\* a few small frames in a row, and their encodings back to back
ItemSeqs == SeqsUpTo(ElemAtoms \cup {Array(<<>>), NullBulkString}, MaxItems) \ {<<>>}
Pipelined == {ValueAll(vs) : vs \in ItemSeqs}

\* arrays whose elements are null sentinels, empty bulk strings and empty
\* arrays
NullElements ==
    {FrameValue_value(Array(<<NullBulkString, NullBulkArray>>)),
     FrameValue_value(Array(<<BulkString(<<>>), Array(<<>>), NullBulkString>>)),
     FrameValue_value(Array(<<Array(<<NullBulkArray>>), BulkString(<<>>)>>))}

Streams ==
    Encodings \cup Corrupted \cup SeqsUpTo(RawBytes, MaxRaw) \cup WordStreams
    \cup {NestedExample} \cup Pipelined \cup NullElements

\* what the encoder is given: one value, or a few small ones in a row
Scripts == {<<v>> : v \in Values} \cup ItemSeqs

(***************************************************************************)
(* The state machine                                                        *)
(*   stream, rd : the bytes the peer sends and how many have been read      *)
(*   todo       : the values still to be encoded                            *)
(*   buf        : the BytesMut accumulator                                  *)
(*   res        : the outcome of the most recent Frame::decode              *)
(*   enc        : the Result of the most recent Frame::encode               *)
(*   last       : the most recent operation; a decode and an encode record *)
(*                the accumulator they started from                         *)
(*   prev       : the operation before it, when that was an encode          *)
(***************************************************************************)
NoItem == [t |-> "NoItem"]
NoResult == [k |-> "NoResult"]
\* Ok(()) of Frame::encode
Ok == [k |-> "Ok"]
Op(op, pre, item, ok) == [op |-> op, pre |-> pre, item |-> item, ok |-> ok]
NoOp == Op("none", <<>>, NoItem, TRUE)
\* what prev keeps: an encode, with `fresh` telling whether its dst was empty
Summary(o) ==
    IF o.op = "encode"
    THEN [op |-> o.op, item |-> o.item, ok |-> o.ok, fresh |-> o.pre = <<>>]
    ELSE [op |-> "other", item |-> NoItem, ok |-> TRUE, fresh |-> FALSE]

\* most connections made to the listener
MaxConns == 2
\* most writes a peer makes on its connection
MaxSends == 2
\* most bytes of one write
MaxBytes == 2

Conns == 1..MaxConns

\* no connection has been made
NoConnections ==
    /\ backlog = <<>>
    /\ sock = [c \in Conns |-> [st |-> "idle", sent |-> 0, unread |-> 0]]
    /\ task = [c \in Conns |-> "none"]
    /\ pongs = [c \in Conns |-> 0]

Init ==
    /\ program = "codec"
    /\ NoConnections
    /\ \/ stream \in Streams /\ todo = <<>>
       \/ stream = <<>> /\ todo \in Scripts
    /\ rd = 0
    /\ buf = <<>>
    /\ res = NoResult
    /\ enc = NoResult
    /\ last = NoOp
    /\ prev = Summary(NoOp)

Alive == res # Panicked

\* the transport delivers the next n bytes of the stream into the accumulator
Read(n) ==
    /\ Alive
    /\ rd + n <= Len(stream)
    /\ buf' = buf \o SubSeq(stream, rd + 1, rd + n)
    /\ rd' = rd + n
    /\ last' = Op("read", <<>>, NoItem, TRUE)
    /\ prev' = Summary(last)
    /\ UNCHANGED <<stream, todo, res, enc>>
    /\ UNCHANGED server_vars

\* Frame::decode on the accumulator
Decode ==
    /\ Alive
    /\ \E d \in {decode(buf)} :
          /\ buf' = d.src
          /\ res' = d.res
    /\ last' = Op("decode", buf, NoItem, TRUE)
    /\ prev' = Summary(last)
    /\ UNCHANGED <<stream, rd, todo, enc>>
    /\ UNCHANGED server_vars

\* Frame::encode of the next value, with the accumulator as dst
Encode ==
    /\ Alive
    /\ todo # <<>>
    /\ \E e \in {encode(Head(todo), buf)} :
          /\ buf' = e.dst
          /\ enc' = IF e.ok THEN Ok ELSE Err(e.err)
          /\ last' = Op("encode", buf, Head(todo), e.ok)
    /\ todo' = Tail(todo)
    /\ prev' = Summary(last)
    /\ UNCHANGED <<stream, rd, res>>
    /\ UNCHANGED server_vars

Next ==
    \/ \E n \in 1..(Len(stream) - rd) : Read(n)
    \/ Decode
    \/ Encode

Spec == Init /\ [][Next]_vars

(***************************************************************************)
(* The encoder at the ceiling: Frame::encode applied to values whose        *)
(* encoded length is at, just over and far over MAX, and to the small ones  *)
(***************************************************************************)
\* a bulk string of p bytes, p of seven digits, encodes to p + 12 bytes
AtCeiling == BulkStringOf(97, MAX - 12)
OverByOne == BulkStringOf(97, MAX - 11)
PayloadOver == BulkStringOf(97, MAX + 1)
\* two elements, each within the ceiling, that exceed it together
HalfArray == Array(<<BulkStringOf(97, MAX \div 2), BulkStringOf(97, MAX \div 2)>>)

BigScripts == {<<AtCeiling>>, <<One, OverByOne>>, <<One, PayloadOver>>, <<HalfArray, One>>}

EncoderInit ==
    /\ program = "codec"
    /\ NoConnections
    /\ stream = <<>>
    /\ todo \in Scripts \cup BigScripts
    /\ rd = 0
    /\ buf = <<>>
    /\ res = NoResult
    /\ enc = NoResult
    /\ last = NoOp
    /\ prev = Summary(NoOp)

EncoderNext == Encode

EncoderSpec == EncoderInit /\ [][EncoderNext]_vars

(***************************************************************************)
(* The two servers: bin/server.rs (server::run, a task per connection) and  *)
(* main.rs (handle_connection called from the accept loop)                  *)
(*   program : which of the two binaries runs                               *)
(*   backlog : the connections made and not yet accepted, oldest first      *)
(*   sock    : per connection, the peer's end: idle, connected or closed,   *)
(*             the writes it has made and the bytes of them still unread    *)
(*   task    : per connection, its handler: none, run, done or panicked     *)
(*   pongs   : per connection, the +PONG replies written to it              *)
(***************************************************************************)
ServerInit ==
    /\ program \in {"server", "main"}
    /\ NoConnections
    /\ stream = <<>>
    /\ todo = <<>>
    /\ rd = 0
    /\ buf = <<>>
    /\ res = NoResult
    /\ enc = NoResult
    /\ last = NoOp
    /\ prev = Summary(NoOp)

\* a peer connects: the connection waits in the listener's queue
Connect(c) ==
    /\ sock[c].st = "idle"
    /\ sock' = [sock EXCEPT ![c].st = "open"]
    /\ backlog' = Append(backlog, c)
    /\ UNCHANGED <<program, task, pongs>>
    /\ UNCHANGED codec_vars

\* a peer writes some bytes on its connection
Send(c) ==
    /\ sock[c].st = "open"
    /\ sock[c].sent < MaxSends
    /\ \E n \in 1..MaxBytes :
          sock' = [sock EXCEPT ![c].sent = @ + 1, ![c].unread = @ + n]
    /\ UNCHANGED <<program, backlog, task, pongs>>
    /\ UNCHANGED codec_vars

\* a peer closes its connection
Close(c) ==
    /\ sock[c].st = "open"
    /\ sock' = [sock EXCEPT ![c].st = "closed"]
    /\ UNCHANGED <<program, backlog, task, pongs>>
    /\ UNCHANGED codec_vars

\* the most one read returns: the size of buf
BUF_LEN == 512

Min(a, b) == IF a < b THEN a ELSE b

\* a loop that answers every byte it reads instead of every read
ReadLoop_per_byte(c) ==
    /\ task[c] = "run"
    /\ \/ /\ sock[c].unread > 0
          /\ \E size \in 1..Min(sock[c].unread, BUF_LEN) :
                /\ sock' = [sock EXCEPT ![c].unread = @ - size]
                /\ \/ task' = task /\ pongs' = [pongs EXCEPT ![c] = @ + size]
                   \/ /\ sock[c].st = "closed"
                      /\ task' = [task EXCEPT ![c] = "panicked"]
                      /\ pongs' = pongs
       \/ /\ sock[c].unread = 0
          /\ sock[c].st = "closed"
          /\ task' = [task EXCEPT ![c] = "done"]
          /\ UNCHANGED <<sock, pongs>>
       \/ /\ sock[c].st = "closed"
          /\ task' = [task EXCEPT ![c] = "done"]
          /\ UNCHANGED <<sock, pongs>>
    /\ UNCHANGED <<program, backlog>>
    /\ UNCHANGED codec_vars

\* one turn of the loop of process and of handle_connection on connection c.
\* Ok(size), size > 0: the read returns some of the unread bytes, at most
\* BUF_LEN and cut anywhere, and one +PONG is written without a look at them
\* (a write to a peer that has closed may fail, and the unwrap panics).
\* Ok(0): a read at the end of the stream of a closed peer ends the handler.
\* Err(e): a read on a connection the peer has dropped may fail, which ends
\* the handler too.  Otherwise the read waits.
ReadLoop(c) ==
    /\ task[c] = "run"
    /\ \/ /\ sock[c].unread > 0
          /\ \E size \in 1..Min(sock[c].unread, BUF_LEN) :
                sock' = [sock EXCEPT ![c].unread = @ - size]
          /\ \/ task' = task /\ pongs' = [pongs EXCEPT ![c] = @ + 1]
             \/ /\ sock[c].st = "closed"
                /\ task' = [task EXCEPT ![c] = "panicked"]
                /\ pongs' = pongs
       \/ /\ sock[c].unread = 0
          /\ sock[c].st = "closed"
          /\ task' = [task EXCEPT ![c] = "done"]
          /\ UNCHANGED <<sock, pongs>>
       \/ /\ sock[c].st = "closed"
          /\ task' = [task EXCEPT ![c] = "done"]
          /\ UNCHANGED <<sock, pongs>>
    /\ UNCHANGED <<program, backlog>>
    /\ UNCHANGED codec_vars

\* server::run: accept, spawn process(socket), accept again
run ==
    /\ program = "server"
    /\ backlog # <<>>
    /\ task' = [task EXCEPT ![Head(backlog)] = "run"]
    /\ backlog' = Tail(backlog)
    /\ UNCHANGED <<program, sock, pongs>>
    /\ UNCHANGED codec_vars

\* process(socket), the task spawned for connection c
process(c) == program = "server" /\ ReadLoop(c)

\* main of main.rs: the for loop takes the next connection when the call of
\* handle_connection for the one before has returned; a panic in that call
\* ends the program
main ==
    /\ program = "main"
    /\ backlog # <<>>
    /\ \A c \in Conns : task[c] \in {"none", "done"}
    /\ task' = [task EXCEPT ![Head(backlog)] = "run"]
    /\ backlog' = Tail(backlog)
    /\ UNCHANGED <<program, sock, pongs>>
    /\ UNCHANGED codec_vars

\* handle_connection(stream), called by main for connection c
handle_connection(c) == program = "main" /\ ReadLoop(c)

ServerNext ==
    \/ \E c \in Conns : Connect(c)
    \/ \E c \in Conns : Send(c)
    \/ \E c \in Conns : Close(c)
    \/ run
    \/ \E c \in Conns : process(c)
    \/ main
    \/ \E c \in Conns : handle_connection(c)

\* the runtime runs every task that can take a step, and the main thread of
\* main.rs runs; the peers are under no obligation
ServerSpec ==
    /\ ServerInit
    /\ [][ServerNext]_vars
    /\ WF_vars(run)
    /\ WF_vars(main)
    /\ \A c \in Conns : WF_vars(process(c)) /\ WF_vars(handle_connection(c))

(***************************************************************************)
(* Command::from_frame (cmd/mod.rs), applied to frames one at a time        *)
(***************************************************************************)
\* Command::Echo { msg }
Echo(msg) == [t |-> "Echo", msg |-> msg]
\* CommandError
InvalidArrayFrame(frame) == [e |-> "InvalidArrayFrame", frame |-> frame]
ExpectedBulkStringCommand == [e |-> "ExpectedBulkStringCommand"]
\* Ok(command) of from_frame
OkCommand(c) == [k |-> "Ok", v |-> c]

\* "hello"
hello == <<104, 101, 108, 108, 111>>

\* frames_iter.next() on the elements of the array
next(frames) == IF frames = <<>> THEN [k |-> "None"] ELSE [k |-> "Some", v |-> Head(frames)]

\* a from_frame that takes any first element for the command name
from_frame_any_first(frame) ==
    IF frame.t # "Array"
    THEN Err(InvalidArrayFrame(frame))
    ELSE IF next(frame.a).k = "Some"
         THEN OkCommand(Echo(hello))
         ELSE Err(ExpectedBulkStringCommand)

\* Command::from_frame
from_frame(frame) ==
    IF frame.t # "Array"
    THEN Err(InvalidArrayFrame(frame))
    ELSE IF next(frame.a).k = "Some" /\ next(frame.a).v.t = "BulkString"
         THEN OkCommand(Echo(hello))
         ELSE Err(ExpectedBulkStringCommand)

\* the frames given to from_frame: every value of the codec model and arrays
\* that begin with a null, an error, an empty array and a command name
ECHO == <<69, 67, 72, 79>>
PING == <<80, 73, 78, 71>>
CommandFrames ==
    Values \cup
    { Array(<<NullBulkString>>), Array(<<NullBulkArray, BulkString(ECHO)>>),
      Array(<<Error(ECHO), BulkString(Hello)>>), Array(<<Array(<<>>)>>),
      Array(<<BulkString(<<>>)>>), Array(<<BulkString(PING)>>),
      Array(<<BulkString(ECHO), BulkString(Hello)>>),
      Array(<<BulkString(ECHO), Integer(I64(FALSE, <<1>>))>>) }

CommandInit ==
    /\ program = "codec"
    /\ NoConnections
    /\ stream = <<>>
    /\ todo \in {<<f>> : f \in CommandFrames}
    /\ rd = 0
    /\ buf = <<>>
    /\ res = NoResult
    /\ enc = NoResult
    /\ last = NoOp
    /\ prev = Summary(NoOp)

\* the next frame of the script is turned into a command
FromFrame ==
    /\ todo # <<>>
    /\ \E r \in {from_frame(Head(todo))} :
          /\ res' = r
          /\ last' = Op("from_frame", <<>>, Head(todo), r.k = "Ok")
    /\ prev' = Summary(last)
    /\ todo' = Tail(todo)
    /\ UNCHANGED <<stream, rd, buf, enc>>
    /\ UNCHANGED server_vars

CommandNext == FromFrame

CommandSpec == CommandInit /\ [][CommandNext]_vars

(***************************************************************************)
(* The second decoder: Parser, RespBufSlice, RespFrame, RespError and the   *)
(* free functions word and get_int of parser.rs.  The names of parser.rs    *)
(* that frame.rs has too carry the prefix Parser_.  A RespFrame and a       *)
(* FrameValue of the same variant and fields are the same record, and so    *)
(* are a RespError and a FrameError.                                        *)
(***************************************************************************)
\* RespFrame
RF_SimpleString(b) == [t |-> "SimpleString", b |-> b]
RF_BulkString(b) == [t |-> "BulkString", b |-> b]
RF_Error(b) == [t |-> "Error", b |-> b]
RF_Integer(i) == [t |-> "Integer", i |-> i]
RF_Array(fs) == [t |-> "Array", a |-> fs]
RF_NullBulkString == [t |-> "NullBulkString"]
RF_NullBulkArray == [t |-> "NullBulkArray"]

\* RespError
RE_IntParseFailure == [e |-> "IntParseFailure"]
RE_UnknownStartingByte == [e |-> "UnknownStartingByte"]
RE_BadBulkStringSize(n) == [e |-> "BadBulkStringSize", n |-> n]
RE_BadBulkArraySize(n) == [e |-> "BadBulkArraySize", n |-> n]

\* RespBufSlice
RS_SimpleString(s) == [t |-> "SimpleString", s |-> s]
RS_Error(s) == [t |-> "Error", s |-> s]
RS_BulkString(s) == [t |-> "BulkString", s |-> s]
RS_Integer(i) == [t |-> "Integer", i |-> i]
RS_Array(vs) == [t |-> "Array", a |-> vs]
RS_NullBulkString == [t |-> "NullBulkString"]
RS_NullBulkArray == [t |-> "NullBulkArray"]

\* BufSlice of parser.rs and its two views
Parser_BufSlice(a, b) == <<a, b>>
Parser_as_slice(s, b) == SubSeq(b, s[1] + 1, s[2])
Parser_as_bytes(s, b) == SubSeq(b, s[1] + 1, s[2])

\* the closure given to and_then in word: end is memchr's answer
Parser_word_end(b, pos, end) ==
    IF end = -1 THEN None
    ELSE IF pos + end + 1 < Len(b) /\ b[pos + end + 1 + 1] = LF
         THEN Some(pos + end + 2, Parser_BufSlice(pos, pos + end))
         ELSE None

Parser_word(b, pos) ==
    IF Len(b) <= pos THEN None ELSE Parser_word_end(b, pos, memchr(CR, b, pos))

\* the Some arm of get_int: i is what str::parse returned
Parser_get_int_parsed(end, i) ==
    IF i.ok THEN Some(end, i.i) ELSE Err(RE_IntParseFailure)

Parser_get_int_match(b, w) ==
    IF w.k = "Some"
    THEN Parser_get_int_parsed(w.pos, str_parse(Parser_as_slice(w.v, b)))
    ELSE None

\* the free function get_int
Parser_get_int(b, pos) == Parser_get_int_match(b, Parser_word(b, pos))

Parser_map_simple_string(w) ==
    IF w.k = "Some" THEN Some(w.pos, RS_SimpleString(w.v)) ELSE w
Parser_map_error(w) == IF w.k = "Some" THEN Some(w.pos, RS_Error(w.v)) ELSE w
Parser_map_integer(r) == IF r.k = "Some" THEN Some(r.pos, RS_Integer(r.v)) ELSE r

Parser_get_simple_string(b, pos) == Parser_map_simple_string(Parser_word(b, pos))

Parser_get_error(b, pos) == Parser_map_error(Parser_word(b, pos))

RespBufSlice_get_int(b, pos) == Parser_map_integer(Parser_get_int(b, pos))

\* the arm `Some((end, size)) if size >= 0` once the payload is in the buffer
Parser_bulk_payload(b, end, size, end_string_pos) ==
    IF b[end_string_pos + 1] = CR /\ b[end_string_pos + 1 + 1] = LF
    THEN Some(end_string_pos + 2, RS_BulkString(Parser_BufSlice(end, end_string_pos)))
    ELSE Err(RE_BadBulkStringSize(size))

\* the match of get_bulk_string: r is get_int's answer
Parser_get_bulk_string_match(b, r) ==
    IF r.k = "Some"
    THEN IF r.v = MinusOne THEN Some(r.pos, RS_NullBulkString)
         ELSE IF ~r.v.neg
         THEN IF BeyondEnd(r.pos, r.v, b) THEN None
              ELSE Parser_bulk_payload(b, r.pos, r.v, r.pos + MagToNat(r.v.mag))
         ELSE Err(RE_BadBulkStringSize(r.v))
    ELSE r

Parser_get_bulk_string(b, pos) == Parser_get_bulk_string_match(b, Parser_get_int(b, pos))

RECURSIVE get_frame_slice(_, _)
RECURSIVE Parser_ArrayLoop(_, _, _, _)

\* the match inside the loop: r is what get_frame_slice returned
Parser_ArrayStep(b, n, values, r) ==
    IF r.k = "Some" THEN Parser_ArrayLoop(b, r.pos, n - 1, Append(values, r.v)) ELSE r

\* `for _ in 0..size` in get_array, n iterations left
Parser_ArrayLoop(b, cur_pos, n, values) ==
    IF n = 0 THEN Some(cur_pos, RS_Array(values))
    ELSE Parser_ArrayStep(b, n, values, get_frame_slice(b, cur_pos))

\* a get_array that reports a bad count as a bad bulk string size
Parser_get_array_kind(b, r) ==
    IF r.k = "Some"
    THEN IF r.v = MinusOne THEN Some(r.pos, RS_NullBulkArray)
         ELSE IF ~r.v.neg
         THEN IF CapacityOverflow(r.v) THEN Panic
              ELSE Parser_ArrayLoop(b, r.pos, Iterations(r.v, b), <<>>)
         ELSE Err(RE_BadBulkStringSize(r.v))
    ELSE r

\* the match of get_array: r is get_int's answer.  Vec::<RespBufSlice>
\* ::with_capacity has the element size of Vec::<FrameBufSlice>, the two
\* enums having the same variants
Parser_get_array_match(b, r) ==
    IF r.k = "Some"
    THEN IF r.v = MinusOne THEN Some(r.pos, RS_NullBulkArray)
         ELSE IF ~r.v.neg
         THEN IF CapacityOverflow(r.v) THEN Panic
              ELSE Parser_ArrayLoop(b, r.pos, Iterations(r.v, b), <<>>)
         ELSE Err(RE_BadBulkArraySize(r.v))
    ELSE r

Parser_get_array(b, pos) == Parser_get_array_match(b, Parser_get_int(b, pos))

\* RespBufSlice::get_frame_slice
get_frame_slice(b, pos) ==
    IF Len(b) <= pos THEN None
    ELSE CASE b[pos + 1] = PLUS -> Parser_get_simple_string(b, pos + 1)
           [] b[pos + 1] = MINUS -> Parser_get_error(b, pos + 1)
           [] b[pos + 1] = COLON -> RespBufSlice_get_int(b, pos + 1)
           [] b[pos + 1] = DOLLAR -> Parser_get_bulk_string(b, pos + 1)
           [] b[pos + 1] = STAR -> Parser_get_array(b, pos + 1)
           [] OTHER -> Err(RE_UnknownStartingByte)

\* RespBufSlice::value: the owned RespFrame of a parsed slice
RECURSIVE RespBufSlice_value(_, _)
RespBufSlice_value(fs, b) ==
    CASE fs.t = "SimpleString" -> RF_SimpleString(Parser_as_bytes(fs.s, b))
      [] fs.t = "BulkString" -> RF_BulkString(Parser_as_bytes(fs.s, b))
      [] fs.t = "Error" -> RF_Error(Parser_as_bytes(fs.s, b))
      [] fs.t = "Integer" -> RF_Integer(fs.i)
      [] fs.t = "Array" ->
            RF_Array([k \in 1..Len(fs.a) |-> RespBufSlice_value(fs.a[k], b)])
      [] fs.t = "NullBulkString" -> RF_NullBulkString
      [] fs.t = "NullBulkArray" -> RF_NullBulkArray

\* the Some arm of Parser::decode: sp is split_to's answer
Parser_decode_frame(r, sp) ==
    [res |-> Frame(RespBufSlice_value(r.v, sp.head), r.pos), src |-> sp.rest]

\* the match of Parser::decode: r is what get_frame_slice(src, 0) returned
Parser_decode_match(src, r) ==
    CASE r.k = "Some" -> Parser_decode_frame(r, split_to(src, r.pos))
      [] r.k = "None" -> [res |-> Incomplete, src |-> src]
      [] r.k = "Err" -> [res |-> Malformed(r.e), src |-> src]
      [] r.k = "Panic" -> [res |-> Panicked, src |-> src]

\* Parser::decode: the outcome and the accumulator it leaves
Parser_decode(src) ==
    IF src = <<>> THEN [res |-> Incomplete, src |-> src]
    ELSE Parser_decode_match(src, get_frame_slice(src, 0))

ParserInit ==
    /\ program = "codec"
    /\ NoConnections
    /\ stream \in Streams
    /\ todo = <<>>
    /\ rd = 0
    /\ buf = <<>>
    /\ res = NoResult
    /\ enc = NoResult
    /\ last = NoOp
    /\ prev = Summary(NoOp)

\* Parser::decode on the accumulator
ParserDecode ==
    /\ Alive
    /\ \E d \in {Parser_decode(buf)} :
          /\ buf' = d.src
          /\ res' = d.res
    /\ last' = Op("parser_decode", buf, NoItem, TRUE)
    /\ prev' = Summary(last)
    /\ UNCHANGED <<stream, rd, todo, enc>>
    /\ UNCHANGED server_vars

ParserNext ==
    \/ \E n \in 1..(Len(stream) - rd) : Read(n)
    \/ ParserDecode

ParserSpec == ParserInit /\ [][ParserNext]_vars

TypeOK ==
    /\ rd \in 0..Len(stream)
    /\ res.k \in {"NoResult", "Incomplete", "Frame", "Malformed", "Panicked", "Ok", "Err"}
    /\ enc.k \in {"NoResult", "Ok", "Err"}
    /\ last.op \in {"none", "read", "decode", "encode", "from_frame", "parser_decode"}

(***************************************************************************)
(* Claims                                                                   *)
(***************************************************************************)
Prefix(s, k) == SubSeq(s, 1, k)
Suffix(s, k) == SubSeq(s, k + 1, Len(s))
StartsWith(s, p) == Len(s) >= Len(p) /\ Prefix(s, Len(p)) = p

\* a decode that directly follows a successful encode into an empty buffer
DecodedAfterEncode ==
    /\ last.op = "decode"
    /\ prev.op = "encode"
    /\ prev.fresh
    /\ prev.ok

\* C1, as stated: for every FrameValue v within the ceiling, Frame::encode
\* into an empty buffer followed by Frame::decode on that buffer returns
\* exactly v, consumes the full encoded length and leaves the buffer empty.
C1_RoundTripEveryValue ==
    DecodedAfterEncode =>
        /\ res = Frame(prev.item, Len(last.pre))
        /\ buf = <<>>

\* C1, amended: the round trip holds for every FrameValue within the ceiling
\* in which no SimpleString or Error payload, at any depth, holds a CR byte.
C1_RoundTrip ==
    (DecodedAfterEncode /\ NoCR(prev.item)) =>
        /\ res = Frame(prev.item, Len(last.pre))
        /\ buf = <<>>

\* a nested array with a bulk string holding CR LF went round
C1_Witness ==
    /\ DecodedAfterEncode
    /\ prev.item = Array(<<One, Array(<<SimpleString(<<97>>), BulkString(<<CR, LF>>)>>)>>)
    /\ res.k = "Frame"
    /\ res.v = prev.item
    /\ buf = <<>>

\* E is a valid encoding: decoded in one piece it gives a frame and is
\* consumed whole
ValidEncoding(E) ==
    LET d == decode(E) IN d.res.k = "Frame" /\ d.res.pos = Len(E) /\ d.src = <<>>

\* the accumulator of this decode held exactly the first rd bytes of the
\* stream, nothing consumed before
DecodedPrefix == last.op = "decode" /\ last.pre = Prefix(stream, rd)

\* C2: for a valid encoding E of v and every k < |E|, decode on E[0..k]
\* returns Incomplete (and keeps the bytes); once the rest is appended decode
\* returns v and consumes |E| bytes, as decoding E in one piece does.
C2_SplitIndependence ==
    (DecodedPrefix /\ ValidEncoding(stream)) =>
        IF rd < Len(stream)
        THEN res = Incomplete /\ buf = last.pre
        ELSE /\ res.k = "Frame"
             /\ res.pos = Len(stream)
             /\ buf = <<>>
             /\ \A v \in Values : stream = FrameValue_value(v) => res.v = v

\* the last byte alone was missing, and the frame came with it
C2_Witness ==
    /\ DecodedPrefix
    /\ ValidEncoding(stream)
    /\ stream = FrameValue_value(Array(<<BulkString(<<CR, LF>>), One>>))
    /\ rd = Len(stream) - 1
    /\ res = Incomplete

\* C3: decode changes the accumulator only when it returns a frame: on
\* Incomplete or Malformed the accumulator is unchanged; on a frame exactly
\* the frame's bytes, the prefix up to end_offset, are removed and every byte
\* after them stays in place (the removed prefix alone decodes to that frame).
C3_ConsumesOnlyTheFrame ==
    last.op = "decode" =>
        IF res.k = "Frame"
        THEN /\ res.pos \in 1..Len(last.pre)
             /\ buf = Suffix(last.pre, res.pos)
             /\ decode(Prefix(last.pre, res.pos)) = [res |-> res, src |-> <<>>]
        ELSE buf = last.pre

\* a frame was taken off the front and bytes of the next one stayed
C3_Witness ==
    /\ last.op = "decode"
    /\ res.k = "Frame"
    /\ buf # <<>>
    /\ Len(buf) < Len(last.pre)

\* C4: Malformed is permanent: once decode has returned Malformed on a
\* connection, no append and no later decode gives a frame or Incomplete.
C4_MalformedIsPermanent ==
    [][res.k = "Malformed" => res'.k = "Malformed" /\ res'.e = res.e]_vars

\* decode reported Malformed again on an accumulator whose shorter prefix was
\* already Malformed
C4_Witness ==
    /\ last.op = "decode"
    /\ res.k = "Malformed"
    /\ \E k \in 1..(Len(last.pre) - 1) : decode(Prefix(last.pre, k)).res = res

\* the first field of the accumulator, from position 1 to its first CR, is a
\* line field (simple string, error, integer, length or count) whose CR is
\* followed by a byte that has arrived and is not LF
StuckCR(b) ==
    /\ b # <<>>
    /\ b[1] \in Markers
    /\ LET end == memchr(CR, b, 1)
       IN  end # -1 /\ 1 + end + 1 < Len(b) /\ b[1 + end + 1 + 1] # LF

\* C5: decode returns Incomplete only for a proper prefix of some valid
\* frame; bytes that can never be extended to a valid frame, such as a CR in
\* a simple string, error, integer, length or count field followed by an
\* arrived byte other than LF, give Malformed.
C5_StuckCRIsMalformed ==
    (last.op = "decode" /\ StuckCR(last.pre)) => res.k = "Malformed"

\* the accumulator starts with marker m, the word w and a CR LF
FieldIs(b, m, w) == StartsWith(b, <<m>> \o w \o <<CR, LF>>)

\* length and count words that declare more than MAX (8 MiB)
OversizeWords ==
    {Digits(<<8,3,8,8,6,0,9>>), Digits(<<1,0,0,0,0,0,0,0,0,0>>), Digits(I64_MAX_MAG)}

\* C6: a bulk-string length or array count above the maximum frame size gives
\* Malformed as soon as the length field is complete; never Incomplete, never
\* a failure by allocation or arithmetic overflow.
C6_OversizeDeclarationIsMalformed ==
    (/\ last.op = "decode"
     /\ \E m \in {DOLLAR, STAR}, w \in OversizeWords : FieldIs(last.pre, m, w))
        => res.k = "Malformed"

\* the offsets, in the encoding of array value v, at which an element starts,
\* at any depth
RECURSIVE ElementStarts(_)
RECURSIVE StartsFrom(_, _, _)
StartsFrom(fs, k, o) ==
    IF k > Len(fs) THEN {}
    ELSE {o} \cup (IF fs[k].t = "Array"
                   THEN {o + x : x \in ElementStarts(fs[k])} ELSE {})
             \cup StartsFrom(fs, k + 1, o + Len(FrameValue_value(fs[k])))

ElementStarts(v) == StartsFrom(v.a, 1, Len(FrameValue_value(Array(<<>>))))

\* the encodings of the arrays, cut where an element starts
ElementPrefixes ==
    UNION {{Prefix(FrameValue_value(v), o) : o \in ElementStarts(v)} : v \in Arrays(MaxDepth)}

\* the accumulator holds p and, right after it, a byte that is no marker
BadElementMarker(b, p) ==
    /\ Len(b) > Len(p)
    /\ Prefix(b, Len(p)) = p
    /\ b[Len(p) + 1] \notin Markers

\* C7: a non-empty accumulator whose first byte is none of + - : $ * gives
\* Malformed(UnknownStartingByte), also when it is the only byte; the same
\* holds at the start position of any array element.
C7_UnknownMarker ==
    last.op = "decode" =>
        /\ (last.pre # <<>> /\ last.pre[1] \notin Markers)
              => res = Malformed(UnknownStartingByte)
        /\ \A p \in ElementPrefixes :
              BadElementMarker(last.pre, p) => res = Malformed(UnknownStartingByte)

\* the second element of an inner array starts with a letter, and nothing
\* follows it
C7_Witness ==
    /\ last.op = "decode"
    /\ LET v == Array(<<One, Array(<<SimpleString(<<97>>), BulkString(<<CR, LF>>)>>)>>)
           p == Prefix(FrameValue_value(v), 16)
       IN  /\ 16 \in ElementStarts(v)
           /\ p \in ElementPrefixes
           /\ BadElementMarker(last.pre, p)
           /\ Len(last.pre) = 17
    /\ res = Malformed(UnknownStartingByte)
    /\ buf = last.pre

\* lengths below -1 and the words that declare them
NegWords ==
    {<<<<MINUS, ZERO + 2>>, I64(TRUE, <<2>>)>>,
     <<<<MINUS, ZERO + 1, ZERO>>, I64(TRUE, <<1, 0>>)>>,
     <<<<MINUS, ZERO, ZERO + 2>>, I64(TRUE, <<2>>)>>,
     <<<<MINUS>> \o Digits(I64_MIN_MAG), I64_MIN>>}

BadSize(m, n) == IF m = DOLLAR THEN BadBulkStringSize(n) ELSE BadBulkArraySize(n)

\* C8, as stated: a bulk string or array whose declared length is below -1
\* gives Malformed(BadBulkStringSize / BadBulkArraySize) whether or not the
\* terminator of the length field or any following byte has arrived.
C8_NegativeLengthAnyCompleteness ==
    last.op = "decode" =>
        \A m \in {DOLLAR, STAR}, nw \in NegWords :
            (\/ last.pre = <<m>> \o nw[1]
             \/ last.pre = <<m>> \o nw[1] \o <<CR>>
             \/ FieldIs(last.pre, m, nw[1]))
                => res = Malformed(BadSize(m, nw[2]))

\* C8, amended: once the length field and its CR LF have arrived, a declared
\* length below -1 gives Malformed(BadBulkStringSize) for a bulk string and
\* Malformed(BadBulkArraySize) for an array, whether or not any byte follows
\* the terminator; nothing is consumed.
C8_NegativeLength ==
    last.op = "decode" =>
        \A m \in {DOLLAR, STAR}, nw \in NegWords :
            FieldIs(last.pre, m, nw[1])
                => res = Malformed(BadSize(m, nw[2])) /\ buf = last.pre

\* "*-2\r\n" and nothing after it
C8_Witness ==
    /\ last.op = "decode"
    /\ last.pre = <<STAR, MINUS, ZERO + 2, CR, LF>>
    /\ res = Malformed(BadBulkArraySize(I64(TRUE, <<2>>)))

\* the accumulator starts with a marker of an integer, length or count field
\* and holds the field's CR LF
IntMarkers == {COLON, DOLLAR, STAR}

FieldComplete(b) ==
    /\ b # <<>>
    /\ b[1] \in IntMarkers
    /\ LET end == memchr(CR, b, 1)
       IN  end # -1 /\ 1 + end + 1 < Len(b) /\ b[1 + end + 1 + 1] = LF

\* the word of that field
FieldWord(b) == SubSeq(b, 2, 1 + memchr(CR, b, 1))

IsDigits(w) == w # <<>> /\ \A k \in 1..Len(w) : IsDigit(w[k])
MinusDigits(w) == IsDigits(w) \/ (w # <<>> /\ w[1] = MINUS /\ IsDigits(Tail(w)))
SignedDigits(w) == MinusDigits(w) \/ (w # <<>> /\ w[1] = PLUS /\ IsDigits(Tail(w)))

\* the integer a word of digits with an optional sign denotes
Denoted(w) ==
    LET ds == IF IsDigit(w[1]) THEN w ELSE Tail(w)
        mag == StripZeros([k \in 1..Len(ds) |-> ds[k] - ZERO])
    IN  I64(w[1] = MINUS /\ mag # <<0>>, mag)

InI64(i) == MagLeq(i.mag, IF i.neg THEN I64_MIN_MAG ELSE I64_MAX_MAG)

\* decode used exactly the value n, the denotation of word w, for the field
\* after marker m: the integer frame holds n; -1 is the null sentinel and a
\* length below -1 is reported with its value; a bulk string or array that
\* comes out has n bytes or n elements, and while nothing but the field has
\* arrived a count n > 0 waits for its elements (or, beyond what a Vec can
\* hold, fails in Vec::with_capacity)
GivesExactly(m, n, w) ==
    LET h == 1 + Len(w) + 2
    IN  CASE m = COLON -> res = Frame(Integer(n), h)
          [] n = MinusOne ->
                res = Frame(IF m = DOLLAR THEN NullBulkString ELSE NullBulkArray, h)
          [] n.neg -> res = Malformed(BadSize(m, n))
          [] m = DOLLAR ->
                /\ res # Malformed(IntParseFailure)
                /\ res.k = "Frame" =>
                      res.v.t = "BulkString" /\ NatToMag(Len(res.v.b)) = n.mag
          [] OTHER ->
                /\ res.k = "Frame" => res.v.t = "Array" /\ NatToMag(Len(res.v.a)) = n.mag
                /\ Len(last.pre) = h =>
                      IF n.mag = <<0>> THEN res = Frame(Array(<<>>), h)
                      ELSE res.k \in {"Incomplete", "Panicked"}

\* C9, as stated: for an integer frame and every length and count field, a
\* word that is not a base-10 i64 written as digits with an optional leading
\* '-' (empty, a non-digit byte, a leading '+', out of the i64 range) gives
\* Malformed(IntParseFailure), never Incomplete or a value; a valid word gives
\* exactly the i64 it denotes.
C9_OnlyMinusSignedWords ==
    (last.op = "decode" /\ FieldComplete(last.pre)) =>
        LET w == FieldWord(last.pre)
        IN  IF MinusDigits(w) /\ InI64(Denoted(w))
            THEN GivesExactly(last.pre[1], Denoted(w), w)
            ELSE res = Malformed(IntParseFailure) /\ buf = last.pre

\* C9, amended: the valid words are the decimal digits with an optional
\* leading '-' or '+' that denote a value in the i64 range; every other word
\* gives Malformed(IntParseFailure), and a valid word gives exactly the i64 it
\* denotes.
C9_IntegerWords ==
    (last.op = "decode" /\ FieldComplete(last.pre)) =>
        LET w == FieldWord(last.pre)
        IN  IF SignedDigits(w) /\ InI64(Denoted(w))
            THEN GivesExactly(last.pre[1], Denoted(w), w)
            ELSE res = Malformed(IntParseFailure) /\ buf = last.pre

\* one below i64::MIN is refused
C9_Witness ==
    /\ last.op = "decode"
    /\ last.pre = <<COLON, MINUS>> \o Digits(<<9,2,2,3,3,7,2,0,3,6,8,5,4,7,7,5,8,0,9>>)
                    \o <<CR, LF>>
    /\ res = Malformed(IntParseFailure)

\* C10: a bulk string with declared length n >= 0: with fewer than n + 2 bytes
\* after the length field's terminator decode returns Incomplete; with n + 2
\* bytes there and CR LF after the n payload bytes it returns BulkString of
\* exactly those n bytes (CR and LF among them allowed) and consumes through
\* that terminator; with other bytes in place of the CR LF it returns
\* Malformed(BadBulkStringSize).
C10_BulkString ==
    last.op = "decode" =>
        \A n \in 0..Len(last.pre) :
            LET w == Digits(NatToMag(n))
                h == 1 + Len(w) + 2
                rest == Suffix(last.pre, h)
            IN  FieldIs(last.pre, DOLLAR, w) =>
                    IF Len(rest) < n + 2
                    THEN res = Incomplete /\ buf = last.pre
                    ELSE IF rest[n + 1] = CR /\ rest[n + 2] = LF
                    THEN /\ res = Frame(BulkString(Prefix(rest, n)), h + n + 2)
                         /\ buf = Suffix(rest, n + 2)
                    ELSE /\ res = Malformed(BadBulkStringSize(NatToI64(n)))
                         /\ buf = last.pre

\* a payload that is itself CR LF
C10_Witness ==
    /\ last.op = "decode"
    /\ last.pre = <<DOLLAR, ZERO + 2, CR, LF, CR, LF, CR, LF>>
    /\ res = Frame(BulkString(<<CR, LF>>), 8)
    /\ buf = <<>>

\* the header of an array value's encoding: marker, count, CR LF
HeaderLen(v) == 1 + int_len(NatToI64(Len(v.a))) + 2

\* the accumulators that hold the header of an array but not yet all of its
\* elements: the proper prefixes, header included, of the array encodings
PartialArrays ==
    UNION {{Prefix(FrameValue_value(v), k) : k \in HeaderLen(v)..(FrameValue_len(v) - 1)} :
           v \in Arrays(MaxDepth)}

\* C11: array atomicity: while an element, at any depth, of an array whose
\* header has arrived is not completely present, decode returns Incomplete
\* and consumes nothing, even when leading elements are complete; an array is
\* yielded only by a decode that finds all its elements in the accumulator
\* (no shorter prefix of the consumed bytes gives anything but Incomplete).
C11_ArrayAtomicity ==
    last.op = "decode" =>
        /\ last.pre \in PartialArrays => res = Incomplete /\ buf = last.pre
        /\ (res.k = "Frame" /\ res.v.t = "Array") =>
               /\ res.pos <= Len(last.pre)
               /\ \A k \in 0..(res.pos - 1) :
                      decode(Prefix(last.pre, k)).res = Incomplete

\* the first of two elements is complete, the second has only its marker
C11_Witness ==
    /\ last.op = "decode"
    /\ last.pre = <<STAR, ZERO + 2, CR, LF, COLON, ZERO + 1, CR, LF, PLUS>>
    /\ last.pre \in PartialArrays
    /\ res = Incomplete
    /\ buf = last.pre

\* the last operation was an encode of a value longer than the ceiling
EncodedOversize == last.op = "encode" /\ FrameValue_len(last.item) > MAX

NullBulkStringBytes == <<DOLLAR, MINUS, ZERO + 1, CR, LF>>
NullBulkArrayBytes == <<STAR, MINUS, ZERO + 1, CR, LF>>

\* C13: null sentinels: an accumulator that starts with the 5 bytes $-1 CR LF
\* decodes to NullBulkString and one that starts with *-1 CR LF to
\* NullBulkArray, each consuming exactly those 5 bytes whatever follows them,
\* and encoding each sentinel appends the identical 5 bytes.
C13_NullSentinels ==
    /\ last.op = "decode" =>
          /\ StartsWith(last.pre, NullBulkStringBytes) =>
                res = Frame(NullBulkString, 5) /\ buf = Suffix(last.pre, 5)
          /\ StartsWith(last.pre, NullBulkArrayBytes) =>
                res = Frame(NullBulkArray, 5) /\ buf = Suffix(last.pre, 5)
    /\ last.op = "encode" =>
          /\ last.item = NullBulkString =>
                enc = Ok /\ buf = last.pre \o NullBulkStringBytes
          /\ last.item = NullBulkArray =>
                enc = Ok /\ buf = last.pre \o NullBulkArrayBytes

\* the null bulk string was taken off the front of bytes that are no payload
C13_Witness ==
    /\ last.op = "decode"
    /\ last.pre = NullBulkStringBytes \o <<97, 97, 97>>
    /\ res = Frame(NullBulkString, 5)
    /\ buf = <<97, 97, 97>>

\* WireOrder(b, v, pos): v, decoded from the front of b with end offset pos, is
\* no array, or b starts with an array header whose count is the number of
\* v's elements and the elements are the frames that lie in b one after
\* another from the end of the header, the last one ending at pos.
\* ElementsFrom(b, p, vs, q): the frames vs lie in b one after another from
\* offset p, each starting where the one before ends, the last ending at q.
RECURSIVE WireOrder(_, _, _)
RECURSIVE ElementsFrom(_, _, _, _)
ElementsFrom(b, p, vs, q) ==
    IF vs = <<>> THEN p = q
    ELSE LET d == decode(Suffix(b, p)).res
         IN  /\ d.k = "Frame"
             /\ d.v = Head(vs)
             /\ WireOrder(Suffix(b, p), d.v, d.pos)
             /\ ElementsFrom(b, p + d.pos, Tail(vs), q)

WireOrder(b, v, pos) ==
    v.t = "Array" =>
        /\ FieldComplete(b)
        /\ b[1] = STAR
        /\ SignedDigits(FieldWord(b))
        /\ Denoted(FieldWord(b)) = NatToI64(Len(v.a))
        /\ ElementsFrom(b, 1 + Len(FieldWord(b)) + 2, v.a, pos)

\* C14: a decoded array with declared count n >= 0 has exactly n elements in
\* wire order: the first parsed from the byte after the count's terminator,
\* each next one from the end offset of the one before, nested arrays the
\* same way, and the offset consumed is the end of the last element.
C14_ArrayCountAndOrder ==
    (last.op = "decode" /\ res.k = "Frame") => WireOrder(last.pre, res.v, res.pos)

\* the nested arrays of the example, decoded in one piece
C14_Witness ==
    /\ last.op = "decode"
    /\ last.pre = NestedExample
    /\ res = Frame(Array(<<Array(<<Integer(I64(FALSE, <<1>>)), Integer(I64(FALSE, <<2>>)),
                                  Integer(I64(FALSE, <<3>>))>>),
                           Array(<<SimpleString(Hello), Error(World)>>)>>),
                   Len(NestedExample))
    /\ buf = <<>>

\* C15, as stated: for every accumulator from which decode yields a frame f,
\* f.len() equals the number of bytes decode consumed.
C15_LenIsConsumed ==
    (last.op = "decode" /\ res.k = "Frame") => FrameValue_len(res.v) = res.pos

\* CanonicalFields(b, v): in the bytes at the front of b that v was decoded
\* from, every integer, length and count word, of v and of the elements
\* nested in it, is written as to_string writes its value: no leading '+',
\* no leading zeros, no "-0"
RECURSIVE CanonicalFields(_, _)
RECURSIVE CanonicalFrom(_, _, _)
CanonicalFrom(b, p, vs) ==
    IF vs = <<>> THEN TRUE
    ELSE /\ CanonicalFields(Suffix(b, p), Head(vs))
         /\ CanonicalFrom(b, p + decode(Suffix(b, p)).res.pos, Tail(vs))

CanonicalFields(b, v) ==
    /\ b[1] \in IntMarkers => FieldWord(b) = to_string(Denoted(FieldWord(b)))
    /\ v.t = "Array" => CanonicalFrom(b, 1 + Len(FieldWord(b)) + 2, v.a)

\* C15, amended: f.len() is never more than the number of bytes consumed, and
\* it equals that number exactly when every integer, length and count field
\* of the consumed bytes is in the form the encoder writes.
C15_LenOfCanonical ==
    (last.op = "decode" /\ res.k = "Frame") =>
        /\ FrameValue_len(res.v) <= res.pos
        /\ FrameValue_len(res.v) = res.pos <=> CanonicalFields(last.pre, res.v)

\* i64::MIN in canonical form: 23 bytes consumed, len() of 23
C15_Witness ==
    /\ last.op = "decode"
    /\ res.k = "Frame"
    /\ res.v = Integer(I64_MIN)
    /\ CanonicalFields(last.pre, res.v)
    /\ FrameValue_len(res.v) = res.pos
    /\ res.pos = 1 + 20 + 2

\* connection c waits in the listener's queue; it has been accepted
Queued(c) == \E k \in 1..Len(backlog) : backlog[k] = c
Accepted(c) == task[c] # "none"
\* the peer of c has written something that is not read yet; all it wrote is
\* read, or it has closed
Unread(c) == sock[c].unread > 0
Served(c) == sock[c].unread = 0 \/ sock[c].st = "closed"

\* C16: one task per connection: a connection that has been made is accepted
\* and what its peer wrote is read (and answered), whatever the other
\* connections do: one that stays open and sends nothing holds up no other.
C16_NoConnectionWaitsForAnother ==
    \A c \in Conns :
        /\ Queued(c) ~> Accepted(c)
        /\ Unread(c) ~> Served(c)

\* C16 for bin/server.rs alone, where every connection has its own task
C16_SpawnedTasksServe ==
    \A c \in Conns :
        /\ (program = "server" /\ Queued(c)) ~> Accepted(c)
        /\ (program = "server" /\ Unread(c)) ~> Served(c)

\* main.rs: a connection that has written waits in the queue behind one that
\* is open and has written nothing
C16_HeldUp ==
    \E a, c \in Conns :
        /\ program = "main"
        /\ task[a] = "run" /\ sock[a].st = "open" /\ sock[a].sent = 0
        /\ Queued(c) /\ Unread(c)
        /\ ~ENABLED main

\* C17: a successful Frame::encode(v, dst) appends exactly v.len() bytes to
\* dst and leaves the bytes already in dst unchanged as a prefix; v.len() is
\* the length of the byte encoding of v, for negative integers, i64::MIN,
\* zero, empty bulk strings and nested arrays as for every other value.
C17_EncodeAppendsLen ==
    (last.op = "encode" /\ last.ok) =>
        /\ Len(buf) = Len(last.pre) + FrameValue_len(last.item)
        /\ Prefix(buf, Len(last.pre)) = last.pre
        /\ Suffix(buf, Len(last.pre)) = FrameValue_value(last.item)

\* i64::MIN, 23 bytes, was appended
C17_Witness ==
    /\ last.op = "encode"
    /\ last.ok
    /\ last.item = Integer(I64_MIN)
    /\ FrameValue_len(last.item) = 1 + 20 + 2
    /\ buf = <<COLON, MINUS>> \o Digits(I64_MIN_MAG) \o <<CR, LF>>

\* the loop of the stream adapter: decode is called until it returns no frame;
\* the frames it returned, the outcome that ended the loop and what is left
RECURSIVE Drain(_, _)
Drain(src, frames) ==
    LET d == decode(src)
    IN  IF d.res.k = "Frame" THEN Drain(d.src, Append(frames, d.res.v))
        ELSE [frames |-> frames, end |-> d.res, src |-> d.src]

\* the accumulators that hold valid frames back to back, with the frames
CodedItems == {[bytes |-> ValueAll(vs), frames |-> vs] : vs \in ItemSeqs}

\* C18: frames back to back: when the accumulator holds the encodings of
\* valid frames v1..vn one after another, decode returns v1 and removes only
\* the bytes of v1, n successive calls return v1, .., vn in that order, and
\* the call on the then empty accumulator returns Incomplete.
C18_BackToBack ==
    last.op = "decode" =>
        /\ \A c \in CodedItems :
              last.pre = c.bytes =>
                  /\ res = Frame(Head(c.frames), FrameValue_len(Head(c.frames)))
                  /\ buf = ValueAll(Tail(c.frames))
                  /\ Drain(last.pre, <<>>) =
                        [frames |-> c.frames, end |-> Incomplete, src |-> <<>>]
        /\ last.pre = <<>> => res = Incomplete /\ buf = <<>>

\* the accumulator held two frames; the first was returned and the bytes of
\* the second, a bulk string whose payload is CR LF, stayed
C18_Witness ==
    /\ last.op = "decode"
    /\ last.pre = ValueAll(<<One, BulkString(<<CR, LF>>)>>)
    /\ res = Frame(One, 4)
    /\ buf = FrameValue_value(BulkString(<<CR, LF>>))
    /\ Drain(buf, <<>>).frames = <<BulkString(<<CR, LF>>)>>

\* the number of bytes the first j frames of vs take on the wire
WireLen(vs, j) == Len(ValueAll(Prefix(vs, j)))

\* the frames of vs whose last byte is among the first n bytes of the stream
Arrived(vs, n) ==
    CHOOSE k \in 0..Len(vs) :
        /\ WireLen(vs, k) <= n
        /\ k < Len(vs) => WireLen(vs, k + 1) > n

\* the streams that are valid frames back to back, and the frames they hold
FrameStreams == ItemSeqs \cup {<<v>> : v \in {x \in Values : NoCR(x)}}
CodedStreams == {[bytes |-> ValueAll(vs), frames |-> vs] : vs \in FrameStreams}

\* ChunkIndependent(vs): of the stream that encodes vs the first rd bytes
\* have been appended, in whatever chunks, and the first j frames have been
\* yielded, after whatever decode calls: the accumulator holds the bytes
\* from the end of frame j to rd, a frame just yielded is frame j, and
\* calling decode until Incomplete yields exactly the frames after j whose
\* last byte has been appended, in order, and leaves the bytes after them.
ChunkIndependent(vs) ==
    \E j \in 0..Len(vs) :
        /\ rd - Len(buf) = WireLen(vs, j)
        /\ buf = SubSeq(stream, WireLen(vs, j) + 1, rd)
        /\ (last.op = "decode" /\ res.k = "Frame") => j >= 1 /\ res.v = vs[j]
        /\ Drain(buf, <<>>) =
              [frames |-> SubSeq(vs, j + 1, Arrived(vs, rd)),
               end |-> Incomplete,
               src |-> SubSeq(stream, WireLen(vs, Arrived(vs, rd)) + 1, rd)]

\* C19: chunking independence: for a stream that is a concatenation of valid
\* frame encodings, cut into chunks in any way, with decode called until
\* Incomplete after each append, the frames yielded are the same for every
\* chunking, and every frame whose last byte has been appended is yielded
\* before the next append.
C19_ChunkingIndependence ==
    \A c \in CodedStreams : stream = c.bytes => ChunkIndependent(c.frames)

\* a chunk ended two bytes into the second frame: the first frame has been
\* yielded and the two bytes wait
C19_Witness ==
    /\ stream = ValueAll(<<One, SimpleString(<<97>>)>>)
    /\ rd = 6
    /\ last.op = "decode"
    /\ res = Frame(One, 4)
    /\ buf = <<PLUS, 97>>
    /\ ChunkIndependent(<<One, SimpleString(<<97>>)>>)

\* C20: decode progress: every decode that returns a frame removes at least
\* 3 bytes from the accumulator, so with no further appends the loop that
\* calls decode until it returns no frame makes at most |accumulator| / 3
\* successful calls.
C20_DecodeProgress ==
    last.op = "decode" =>
        /\ res.k = "Frame" => res.pos >= 3 /\ Len(buf) + 3 <= Len(last.pre)
        /\ 3 * Len(Drain(last.pre, <<>>).frames) <= Len(last.pre)

\* the shortest frame, an empty simple string, took exactly 3 bytes
C20_Witness ==
    /\ last.op = "decode"
    /\ res = Frame(SimpleString(<<>>), 3)
    /\ Len(buf) + 3 = Len(last.pre)
    /\ Drain(last.pre, <<>>).frames # <<>>

\* NullsDeclared(b, v): in the bytes at the front of b that v was decoded
\* from, a null sentinel, v itself or an element nested in it, stands where
\* the declared length is -1, and a declared length of 0 gave an empty bulk
\* string or an empty array
RECURSIVE NullsDeclared(_, _)
RECURSIVE NullsDeclaredFrom(_, _, _)
NullsDeclaredFrom(b, p, vs) ==
    IF vs = <<>> THEN TRUE
    ELSE /\ NullsDeclared(Suffix(b, p), Head(vs))
         /\ NullsDeclaredFrom(b, p + decode(Suffix(b, p)).res.pos, Tail(vs))

NullsDeclared(b, v) ==
    /\ v \in {NullBulkString, NullBulkArray} =>
          b[1] \in {DOLLAR, STAR} /\ Denoted(FieldWord(b)) = MinusOne
    /\ (b[1] \in {DOLLAR, STAR} /\ Denoted(FieldWord(b)) = I64(FALSE, <<0>>)) =>
          v = (IF b[1] = DOLLAR THEN BulkString(<<>>) ELSE Array(<<>>))
    /\ v.t = "Array" => NullsDeclaredFrom(b, 1 + Len(FieldWord(b)) + 2, v.a)

\* C21: zero length is not null: $0 CR LF CR LF decodes to a BulkString with
\* an empty payload, consuming 6 bytes, and *0 CR LF to an Array with no
\* elements, consuming 4; no input whose declared length is not -1 decodes
\* to a null sentinel.
C21_ZeroIsNotNull ==
    last.op = "decode" =>
        /\ StartsWith(last.pre, <<DOLLAR, ZERO, CR, LF, CR, LF>>) =>
              res = Frame(BulkString(<<>>), 6) /\ buf = Suffix(last.pre, 6)
        /\ StartsWith(last.pre, <<STAR, ZERO, CR, LF>>) =>
              res = Frame(Array(<<>>), 4) /\ buf = Suffix(last.pre, 4)
        /\ res.k = "Frame" => NullsDeclared(last.pre, res.v)

\* an empty bulk string, an empty array and a null bulk string side by side
\* as the elements of one array
C21_Witness ==
    /\ last.op = "decode"
    /\ res.k = "Frame"
    /\ res.v = Array(<<BulkString(<<>>), Array(<<>>), NullBulkString>>)
    /\ NullsDeclared(last.pre, res.v)

\* the outcome, decoded on its own, of the first of the n frames from offset
\* p of b that is not a complete valid frame
AllValid == [k |-> "AllValid"]
RECURSIVE FirstFailure(_, _, _)
FirstFailure(b, p, n) ==
    IF n = 0 THEN AllValid
    ELSE LET d == decode(Suffix(b, p)).res
         IN  IF d.k = "Frame" THEN FirstFailure(b, p + d.pos, n - 1) ELSE d

\* b starts with the complete header of an array with a count >= 0 (one that
\* Vec::with_capacity can hold: beyond it get_array panics before it looks
\* at any element)
ArrayHeader(b) ==
    /\ FieldComplete(b)
    /\ b[1] = STAR
    /\ SignedDigits(FieldWord(b))
    /\ InI64(Denoted(FieldWord(b)))
    /\ ~Denoted(FieldWord(b)).neg
    /\ ~CapacityOverflow(Denoted(FieldWord(b)))

\* the first element of the array at the front of b that is not complete and
\* valid, decoded on its own
FirstBadElement(b) ==
    FirstFailure(b, 1 + Len(FieldWord(b)) + 2, Iterations(Denoted(FieldWord(b)), b))

\* C22: malformed child propagation: when the elements of an array up to
\* index i-1 are complete and valid and element i is Malformed, decode of
\* the array returns that element's Malformed reason at once, whether or not
\* the elements after i have arrived, and consumes nothing.
C22_MalformedChild ==
    (last.op = "decode" /\ ArrayHeader(last.pre)
        /\ FirstBadElement(last.pre).k = "Malformed") =>
            res = FirstBadElement(last.pre) /\ buf = last.pre

\* the second of two elements has an unknown marker and nothing after it has
\* arrived
C22_Witness ==
    /\ last.op = "decode"
    /\ last.pre = <<STAR, ZERO + 2, CR, LF, COLON, ZERO + 1, CR, LF, 97>>
    /\ rd < Len(stream)
    /\ FirstBadElement(last.pre) = Malformed(UnknownStartingByte)
    /\ res = Malformed(UnknownStartingByte)
    /\ buf = last.pre


\* a turn of the loop on connection c whose read returned more than 0 bytes
ReadSome(c) == task[c] = "run" /\ sock'[c].unread < sock[c].unread
\* the handler of connection c has left its loop
LeftLoop(c) == task[c] \in {"done", "panicked"}

\* C23, as stated: the loop writes exactly one +PONG for every read that
\* returns more than zero bytes, and only then; once it has left the loop it
\* writes nothing more.
C23_OnePongPerRead ==
    [][\A c \in Conns :
          /\ ReadSome(c) <=> pongs'[c] # pongs[c]
          /\ ReadSome(c) => pongs'[c] = pongs[c] + 1 /\ task'[c] = "run"
          /\ LeftLoop(c) => pongs'[c] = pongs[c] /\ task'[c] = task[c]]_vars

\* C23, amended: every read that returns more than zero bytes, whatever the
\* bytes and however many, is followed by one write of +PONG, which either
\* is made or fails on a closed peer, and then the unwrap panics and ends the
\* handler; no +PONG is written otherwise, the loop is left by a read that
\* finds the peer closed (0 bytes or an error) or by that panic, and after it
\* is left nothing more is written.
C23_OnePongPerReadOrPanic ==
    [][\A c \in Conns :
          /\ pongs'[c] # pongs[c] => ReadSome(c)
          /\ ReadSome(c) =>
                \/ pongs'[c] = pongs[c] + 1 /\ task'[c] = "run"
                \/ /\ sock[c].st = "closed"
                   /\ pongs'[c] = pongs[c]
                   /\ task'[c] = "panicked"
          /\ task[c] = "run" /\ task'[c] = "done" =>
                sock[c].st = "closed" /\ pongs'[c] = pongs[c]
          /\ LeftLoop(c) => pongs'[c] = pongs[c] /\ task'[c] = task[c]]_vars

\* one write of the peer was read in two pieces and answered twice, and the
\* handler has left its loop
C23_Witness ==
    \E c \in Conns :
        /\ sock[c].sent = 1
        /\ sock[c].unread = 0
        /\ pongs[c] = 2
        /\ task[c] = "done"


\* the first element of an array is a BulkString
FirstIsBulkString(f) == f.t = "Array" /\ f.a # <<>> /\ Head(f.a).t = "BulkString"

\* C24: Command::from_frame returns InvalidArrayFrame carrying the original
\* frame for every frame that is not an Array, ExpectedBulkStringCommand for
\* an Array that is empty or whose first element is not a BulkString, and Ok
\* only for an Array whose first element is a BulkString.
C24_FromFrameErrors ==
    last.op = "from_frame" =>
        /\ last.item.t # "Array" => res = Err(InvalidArrayFrame(last.item))
        /\ last.item.t = "Array" /\ ~FirstIsBulkString(last.item) =>
              res = Err(ExpectedBulkStringCommand)
        /\ res.k = "Ok" => FirstIsBulkString(last.item)

\* an array that begins with a null bulk string, not a BulkString, was refused
C24_Witness ==
    /\ last.op = "from_frame"
    /\ last.item.t = "Array"
    /\ last.item.a # <<>>
    /\ Head(last.item.a) = NullBulkString
    /\ res = Err(ExpectedBulkStringCommand)


\* C25: the two decoders agree: for every accumulator content Parser::decode
\* returns what Frame::decode returns on the same bytes (Incomplete, the same
\* frame, or the same error kind and value) and leaves the accumulator with
\* the same remaining bytes.
C25_DecodersAgree ==
    last.op = "parser_decode" =>
        /\ res = decode(last.pre).res
        /\ buf = decode(last.pre).src

\* Parser::decode has returned an array and left the bytes that follow it
C25_Witness ==
    /\ last.op = "parser_decode"
    /\ res.k = "Frame"
    /\ res.v.t = "Array"
    /\ buf # <<>>
    /\ last.pre = Prefix(last.pre, res.pos) \o buf

====
